---- MODULE Spec2Model ----
(***************************************************************************)
(* Model of the Ollama MCP server (server.py): the unary request executor  *)
(* _request, the stream accumulator _request_stream and the tool           *)
(* operations registered with @mcp.tool().                                 *)
(*                                                                         *)
(* Text is a sequence of one-character strings, so that strip, join and    *)
(* startswith are computed on characters.  A Python/JSON value is a tagged *)
(* record: None/null, bool, int, str, list, dict (an ordered sequence of   *)
(* <<key, value>> pairs, as Python dicts keep insertion order).            *)
(***************************************************************************)
EXTENDS Integers, Sequences, FiniteSets, TLC

(***************************************************************************)
(* Python values                                                           *)
(***************************************************************************)
JNull == [t |-> "null"]
JBool(b) == [t |-> "bool", v |-> b]
JNum(n) == [t |-> "num", v |-> n]
JStr(s) == [t |-> "str", v |-> s]
JArr(a) == [t |-> "arr", v |-> a]
JObj(o) == [t |-> "obj", v |-> o]

EmptyDict == JObj(<<>>)

\* bool(v): Python truthiness, as used by `x or y` and `if x`.
Truthy(v) ==
    CASE v.t = "null" -> FALSE
      [] v.t = "bool" -> v.v
      [] v.t = "num" -> v.v # 0
      [] OTHER -> Len(v.v) > 0

\* x or y
PyOr(x, y) == IF Truthy(x) THEN x ELSE y

\* isinstance(v, dict)
IsDict(v) == v.t = "obj"

\* isinstance(v, str)
IsStr(v) == v.t = "str"

\* key in d   (d a dict)
HasKey(d, k) == \E i \in 1..Len(d.v) : d.v[i][1] = k

\* d[key]     (d a dict holding key)
Item(d, k) == d.v[CHOOSE i \in 1..Len(d.v) : d.v[i][1] = k][2]

\* d.get(key, default)
GetOr(d, k, default) == IF HasKey(d, k) THEN Item(d, k) ELSE default

\* d.get(key)
Get(d, k) == GetOr(d, k, JNull)

\* {**d, key: value}: an existing key keeps its place, a new one goes last.
DictSet(d, k, val) ==
    IF HasKey(d, k)
    THEN JObj([i \in 1..Len(d.v) |-> IF d.v[i][1] = k THEN <<k, val>> ELSE d.v[i]])
    ELSE JObj(Append(d.v, <<k, val>>))

\* The outcome of a Python expression: a value, or a raised exception.
Ok(val) == [ok |-> TRUE, val |-> val]
Raise(cls, msg) == [ok |-> FALSE, exc |-> [cls |-> cls, msg |-> msg]]

\* httpx.HTTPError and every exception class derived from it.
HTTPErrorClasses ==
    { "HTTPError", "HTTPStatusError", "RequestError", "TransportError",
      "TimeoutException", "ConnectTimeout", "ReadTimeout", "WriteTimeout", "PoolTimeout",
      "NetworkError", "ConnectError", "ReadError", "WriteError", "CloseError",
      "ProtocolError", "LocalProtocolError", "RemoteProtocolError",
      "ProxyError", "UnsupportedProtocol", "DecodingError", "TooManyRedirects" }

\* isinstance(e, httpx.HTTPError)
IsHTTPError(exc) == exc.cls \in HTTPErrorClasses

(***************************************************************************)
(* Text                                                                    *)
(***************************************************************************)
\* A text is a sequence of characters. A character is a one-character string;
\* a character that no TLA+ string can hold is written as its code point.
\* The characters str.strip() removes: those str.isspace() holds for (the
\* first five also when they are written by code point).
Whitespace ==
    { " ", "\n", "\t", "\r", "\f",
      "U+0020", "U+000A", "U+0009", "U+000D", "U+000C",
      "U+000B", "U+001C", "U+001D", "U+001E", "U+001F", "U+0085", "U+00A0", "U+1680",
      "U+2000", "U+2001", "U+2002", "U+2003", "U+2004", "U+2005", "U+2006", "U+2007",
      "U+2008", "U+2009", "U+200A", "U+2028", "U+2029", "U+202F", "U+205F", "U+3000" }

RECURSIVE LStrip(_)
LStrip(s) == IF s # <<>> /\ Head(s) \in Whitespace THEN LStrip(Tail(s)) ELSE s

RECURSIVE RStrip(_)
RStrip(s) ==
    IF s # <<>> /\ s[Len(s)] \in Whitespace THEN RStrip(SubSeq(s, 1, Len(s) - 1)) ELSE s

\* str.strip()
Strip(s) == RStrip(LStrip(s))

\* str.startswith(prefix)
StartsWith(s, prefix) ==
    Len(prefix) <= Len(s) /\ SubSeq(s, 1, Len(prefix)) = prefix

\* sub in s
Contains(s, sub) ==
    \E i \in 1..(Len(s) - Len(sub) + 1) : SubSeq(s, i, i + Len(sub) - 1) = sub

DigitChars == <<"0", "1", "2", "3", "4", "5", "6", "7", "8", "9">>

RECURSIVE NatDigits(_)
NatDigits(n) ==
    IF n < 10 THEN <<DigitChars[n + 1]>>
    ELSE NatDigits(n \div 10) \o <<DigitChars[(n % 10) + 1]>>

\* str(n) for an int
Digits(n) == IF n < 0 THEN <<"-">> \o NatDigits(0 - n) ELSE NatDigits(n)

\* type(v).__name__
PyTypeName(v) ==
    CASE v.t = "null" -> <<"N","o","n","e","T","y","p","e">>
      [] v.t = "bool" -> <<"b","o","o","l">>
      [] v.t = "num" -> <<"i","n","t">>
      [] v.t = "str" -> <<"s","t","r">>
      [] v.t = "arr" -> <<"l","i","s","t">>
      [] OTHER -> <<"d","i","c","t">>

RECURSIVE JoinText(_, _)
\* sep.join(parts) for parts that are all text
JoinText(sep, parts) ==
    IF parts = <<>> THEN <<>>
    ELSE IF Len(parts) = 1 THEN parts[1]
    ELSE parts[1] \o sep \o JoinText(sep, Tail(parts))

RECURSIVE PyRepr(_)
\* repr(v); the text of a str is quoted with single quotes (the texts of the
\* model hold no quote or backslash).
PyRepr(v) ==
    CASE v.t = "null" -> <<"N","o","n","e">>
      [] v.t = "bool" -> IF v.v THEN <<"T","r","u","e">> ELSE <<"F","a","l","s","e">>
      [] v.t = "num" -> Digits(v.v)
      [] v.t = "str" -> <<"'">> \o v.v \o <<"'">>
      [] v.t = "arr" ->
           <<"[">> \o JoinText(<<",", " ">>, [i \in 1..Len(v.v) |-> PyRepr(v.v[i])]) \o <<"]">>
      [] OTHER ->
           <<"{">> \o
           JoinText(<<",", " ">>,
                    [i \in 1..Len(v.v) |->
                        <<"'">> \o v.v[i][1] \o <<"'", ":", " ">> \o PyRepr(v.v[i][2])])
           \o <<"}">>

\* str(v), as an f-string formats {v}
PyStr(v) == IF IsStr(v) THEN v.v ELSE PyRepr(v)

\* The first index of parts that holds no str, 0 when every part is a str.
FirstNonStr(parts) ==
    IF \E i \in 1..Len(parts) : ~IsStr(parts[i])
    THEN CHOOSE i \in 1..Len(parts) :
            ~IsStr(parts[i]) /\ \A j \in 1..(i - 1) : IsStr(parts[j])
    ELSE 0

JoinItemHead == <<"s","e","q","u","e","n","c","e"," ","i","t","e","m"," ">>
JoinItemMid == <<":"," ","e","x","p","e","c","t","e","d"," ","s","t","r"," ","i","n","s","t","a","n","c","e",","," ">>
JoinItemTail == <<" ","f","o","u","n","d">>

\* sep.join(parts) for a list of Python values: TypeError on the first part
\* that is no str.
StrJoin(sep, parts) ==
    LET bad == FirstNonStr(parts) IN
    IF bad = 0
    THEN Ok(JoinText(sep, [i \in 1..Len(parts) |-> parts[i].v]))
    ELSE Raise("TypeError",
               JoinItemHead \o Digits(bad - 1) \o JoinItemMid
               \o PyTypeName(parts[bad]) \o JoinItemTail)

NoAttrTail == <<"'"," ","o","b","j","e","c","t"," ","h","a","s"," ","n","o"," ","a","t","t","r","i","b","u","t","e"," ","'","g","e","t","'">>

\* v.get(...) on a value that is no dict
NoGetError(v) == Raise("AttributeError", <<"'">> \o PyTypeName(v) \o NoAttrTail)

(***************************************************************************)
(* json.dumps and json.loads                                               *)
(***************************************************************************)
RECURSIVE Spaces(_)
Spaces(n) == IF n = 0 THEN <<>> ELSE <<" ">> \o Spaces(n - 1)

\* What json.dumps (ensure_ascii on) writes for a character written by code
\* point "U+XXXX": the short escapes \b \t \n \f \r \" \\ for the characters
\* that have one, any other character of " ".."~" as it is, any other
\* character (control characters, DEL, characters that are not ASCII) as
\* \uXXXX with small hexadecimal digits, a character above U+FFFF as the
\* \uXXXX\uXXXX of its surrogate pair.
CodePointEscape(ch) ==
    LET Lower == <<"0", "1", "2", "3", "4", "5", "6", "7", "8", "9", "a", "b", "c", "d", "e", "f">>
        Upper == <<"0", "1", "2", "3", "4", "5", "6", "7", "8", "9", "A", "B", "C", "D", "E", "F">>
        HexValue(d) == CHOOSE k \in 0..15 : d \in {Lower[k + 1], Upper[k + 1]}
        value[i \in 0..(Len(ch) - 2)] ==
            IF i = 0 THEN 0
            ELSE 16 * value[i - 1] + HexValue(SubSeq(ch, i + 2, i + 2))
        n == value[Len(ch) - 2]
        Unit(u) == <<"\\", "u", Lower[((u \div 4096) % 16) + 1], Lower[((u \div 256) % 16) + 1],
                     Lower[((u \div 16) % 16) + 1], Lower[(u % 16) + 1]>>
    IN CASE n = 8 -> <<"\\", "b">>
         [] n = 9 -> <<"\\", "t">>
         [] n = 10 -> <<"\\", "n">>
         [] n = 12 -> <<"\\", "f">>
         [] n = 13 -> <<"\\", "r">>
         [] n = 34 -> <<"\\", "\"">>
         [] n = 92 -> <<"\\", "\\">>
         [] n >= 32 /\ n <= 126 -> <<ch>>
         [] n > 65535 -> Unit(55296 + ((n - 65536) \div 1024)) \o Unit(56320 + ((n - 65536) % 1024))
         [] OTHER -> Unit(n)

RECURSIVE JsonEscape(_)
\* The inside of a JSON string, as json.dumps writes it.
JsonEscape(s) ==
    IF s = <<>> THEN <<>>
    ELSE (CASE Head(s) = "\"" -> <<"\\", "\"">>
            [] Head(s) = "\\" -> <<"\\", "\\">>
            [] Head(s) = "\n" -> <<"\\", "n">>
            [] Head(s) = "\t" -> <<"\\", "t">>
            [] Head(s) = "\r" -> <<"\\", "r">>
            [] Head(s) = "\f" -> <<"\\", "f">>
            [] Len(Head(s)) > 1 -> CodePointEscape(Head(s))
            [] OTHER -> <<Head(s)>>) \o JsonEscape(Tail(s))

JsonQuote(s) == <<"\"">> \o JsonEscape(s) \o <<"\"">>

RECURSIVE DumpsAt(_, _, _)
\* json.dumps(v, indent=indent) at nesting depth `level`; indent 0 stands for
\* indent=None (one line, separators ", " and ": ").
DumpsAt(v, indent, level) ==
    LET open == IF indent = 0 THEN <<>> ELSE <<"\n">> \o Spaces(indent * (level + 1))
        sep == IF indent = 0 THEN <<",", " ">> ELSE <<",">> \o open
        close == IF indent = 0 THEN <<>> ELSE <<"\n">> \o Spaces(indent * level)
    IN CASE v.t = "null" -> <<"n","u","l","l">>
         [] v.t = "bool" -> IF v.v THEN <<"t","r","u","e">> ELSE <<"f","a","l","s","e">>
         [] v.t = "num" -> Digits(v.v)
         [] v.t = "str" -> JsonQuote(v.v)
         [] v.t = "arr" ->
              IF v.v = <<>> THEN <<"[", "]">>
              ELSE <<"[">> \o open
                   \o JoinText(sep, [i \in 1..Len(v.v) |-> DumpsAt(v.v[i], indent, level + 1)])
                   \o close \o <<"]">>
         [] OTHER ->
              IF v.v = <<>> THEN <<"{", "}">>
              ELSE <<"{">> \o open
                   \o JoinText(sep,
                        [i \in 1..Len(v.v) |->
                            JsonQuote(v.v[i][1]) \o <<":", " ">>
                            \o DumpsAt(v.v[i][2], indent, level + 1)])
                   \o close \o <<"}">>

\* json.dumps(v)
Dumps(v) == DumpsAt(v, 0, 0)

(***************************************************************************)
(* Keys, texts and the backend address                                     *)
(***************************************************************************)
kMessage == <<"m","e","s","s","a","g","e">>
kThinking == <<"t","h","i","n","k","i","n","g">>
kContent == <<"c","o","n","t","e","n","t">>
kResponse == <<"r","e","s","p","o","n","s","e">>
kDone == <<"d","o","n","e">>
kRole == <<"r","o","l","e">>
kModel == <<"m","o","d","e","l">>
kMessages == <<"m","e","s","s","a","g","e","s">>
kPrompt == <<"p","r","o","m","p","t">>
kSystem == <<"s","y","s","t","e","m">>
kStream == <<"s","t","r","e","a","m">>
kName == <<"n","a","m","e">>
kInput == <<"i","n","p","u","t">>
kInsecure == <<"i","n","s","e","c","u","r","e">>
kModels == <<"m","o","d","e","l","s">>
kSize == <<"s","i","z","e">>
kStatus == <<"s","t","a","t","u","s">>
kEmbeddings == <<"e","m","b","e","d","d","i","n","g","s">>
kCount == <<"c","o","u","n","t">>

OLLAMA_BASE == <<"h","t","t","p",":","/","/","l","o","c","a","l","h","o","s","t",":","1","1","4","3","4">>

RECURSIVE RStripSlash(_)
\* s.rstrip('/')
RStripSlash(s) ==
    IF s # <<>> /\ s[Len(s)] = "/" THEN RStripSlash(SubSeq(s, 1, Len(s) - 1)) ELSE s

RECURSIVE LStripSlash(_)
\* s.lstrip('/')
LStripSlash(s) == IF s # <<>> /\ Head(s) = "/" THEN LStripSlash(Tail(s)) ELSE s

OLLAMA_API == RStripSlash(OLLAMA_BASE) \o <<"/","a","p","i">>

_api_url(path) == RStripSlash(OLLAMA_API) \o <<"/">> \o LStripSlash(path)

pTags == <<"t","a","g","s">>
pPs == <<"p","s">>
pShow == <<"s","h","o","w">>
pChat == <<"c","h","a","t">>
pGenerate == <<"g","e","n","e","r","a","t","e">>
pEmbed == <<"e","m","b","e","d">>
pPull == <<"p","u","l","l">>
pDelete == <<"d","e","l","e","t","e">>

ThinkingLabel == <<"[","T","h","i","n","k","i","n","g","]"," ">>
BlankLineSep == <<"\n","\n">>
FailedPrefix == <<"O","l","l","a","m","a"," ","r","e","q","u","e","s","t"," ","f","a","i","l","e","d",":"," ">>
ErrorPrefix == <<"E","r","r","o","r",":"," ">>
IsRunningHint == <<"."," ","I","s"," ","O","l","l","a","m","a"," ","r","u","n","n","i","n","g"," ","a","t"," ">>
NoModelsText == <<"N","o"," ","m","o","d","e","l","s"," ","i","n","s","t","a","l","l","e","d","."," ","U","s","e"," ","p","u","l","l","_","m","o","d","e","l"," ","t","o"," ","p","u","l","l"," ","a"," ","m","o","d","e","l"," ","(","e",".","g","."," ","l","l","a","m","a","3",".","2",")",".">>
NoRunningText == <<"N","o"," ","m","o","d","e","l","s"," ","c","u","r","r","e","n","t","l","y"," ","l","o","a","d","e","d",".">>
PullStatusText == <<"P","u","l","l"," ","s","t","a","t","u","s",":"," ">>
PullProgressText == <<"."," ","C","h","e","c","k"," ","O","l","l","a","m","a"," ","f","o","r"," ","p","r","o","g","r","e","s","s",".">>
DeletedText == <<"D","e","l","e","t","e","d"," ","m","o","d","e","l",":"," ">>
UnknownText == <<"u","n","k","n","o","w","n">>

(***************************************************************************)
(* What the backend can send                                               *)
(***************************************************************************)
tHmm == <<"H","m","m">>
tYes == <<"Y","e","s",".">>
tHi == <<"H","i">>
tThere == <<" ","t","h","e","r","e">>
tAssistant == <<"a","s","s","i","s","t","a","n","t">>
tUser == <<"u","s","e","r">>
tLlama == <<"l","l","a","m","a","3",".","2">>
tGemma == <<"g","e","m","m","a","3">>
tSuccess == <<"s","u","c","c","e","s","s">>
tPing == <<"p","i","n","g">>
tHtml == <<"<","h","t","m","l",">">>
tGenerated == <<"G","e","n","e","r","a","t","e","d"," ","t","e","x","t",".">>

\* {"thinking":"Hmm","response":"","done":false}
FragThinkingTop ==
    JObj(<< <<kThinking, JStr(tHmm)>>, <<kResponse, JStr(<<>>)>>, <<kDone, JBool(FALSE)>> >>)

\* {"response":"Yes.","done":true}
FragResponse == JObj(<< <<kResponse, JStr(tYes)>>, <<kDone, JBool(TRUE)>> >>)

\* {"message":{"role":"assistant","content":"Hi"},"done":false}
FragMessage ==
    JObj(<< <<kMessage, JObj(<< <<kRole, JStr(tAssistant)>>, <<kContent, JStr(tHi)>> >>)>>,
            <<kDone, JBool(FALSE)>> >>)

\* {"message":{"content":" there","thinking":"T "},"thinking":"X","done":true}
FragThinkingBoth ==
    JObj(<< <<kMessage, JObj(<< <<kContent, JStr(tThere)>>,
                                <<kThinking, JStr(<<"T", " ">>)>> >>)>>,
            <<kThinking, JStr(<<"X">>)>>, <<kDone, JBool(TRUE)>> >>)

\* {"message":{"thinking":""},"thinking":" U","content":"c","response":"r"}
FragNestedEmpty ==
    JObj(<< <<kMessage, JObj(<< <<kThinking, JStr(<<>>)>> >>)>>,
            <<kThinking, JStr(<<" ", "U">>)>>,
            <<kContent, JStr(<<"c">>)>>, <<kResponse, JStr(<<"r">>)>> >>)

\* {"message":null,"thinking":null,"content":null,"response":null}
FragNulls ==
    JObj(<< <<kMessage, JNull>>, <<kThinking, JNull>>,
            <<kContent, JNull>>, <<kResponse, JNull>> >>)

\* {"message":"m","content":5,"response":5}
FragNumber ==
    JObj(<< <<kMessage, JStr(<<"m">>)>>, <<kContent, JNum(5)>>, <<kResponse, JNum(5)>> >>)

\* {"message":{"content":null,"response":"b"},"content":"x","response":"y"}
FragBothLevels ==
    JObj(<< <<kMessage, JObj(<< <<kContent, JNull>>, <<kResponse, JStr(<<"b">>)>> >>)>>,
            <<kContent, JStr(<<"x">>)>>, <<kResponse, JStr(<<"y">>)>> >>)

\* {"message":{"thinking":7,"content":"k"}}
FragThinkingNumber ==
    JObj(<< <<kMessage, JObj(<< <<kThinking, JNum(7)>>, <<kContent, JStr(<<"k">>)>> >>)>> >>)

\* The JSON objects a stream line or a response body can hold.
Fragments ==
    { FragThinkingTop, FragResponse, FragMessage, FragThinkingBoth, FragNestedEmpty,
      FragNulls, FragNumber, FragBothLevels, FragThinkingNumber }

\* JSON values that are no object: [1], 5, "Hi", true, false, null
NonObjects == { JArr(<<JNum(1)>>), JNum(5), JStr(tHi), JBool(TRUE), JBool(FALSE), JNull }

\* {"models": []}
BodyNoModels == JObj(<< <<kModels, JArr(<<>>)>> >>)

\* {"models":[{"name":"llama3.2","size":104857600},{"name":"gemma3","size":null}]}
BodyModels ==
    JObj(<< <<kModels,
              JArr(<< JObj(<< <<kName, JStr(tLlama)>>, <<kSize, JNum(104857600)>> >>),
                      JObj(<< <<kName, JStr(tGemma)>>, <<kSize, JNull>> >>) >>)>> >>)

\* {"models":[{"name":null,"size":1572864},5]}
BodyModelsBad ==
    JObj(<< <<kModels,
              JArr(<< JObj(<< <<kName, JNull>>, <<kSize, JNum(1572864)>> >>),
                      JNum(5) >>)>> >>)

\* {"models":[{"size":"big"}]}
BodyModelsSizeText ==
    JObj(<< <<kModels, JArr(<< JObj(<< <<kSize, JStr(<<"b","i","g">>)>> >>) >>)>> >>)

\* {"response":"Generated text."}
BodyGenerated == JObj(<< <<kResponse, JStr(tGenerated)>> >>)

\* {"message":{"content":5},"response":5}
BodyNumber ==
    JObj(<< <<kMessage, JObj(<< <<kContent, JNum(5)>> >>)>>, <<kResponse, JNum(5)>> >>)

\* {"status":"success"}
BodyStatus == JObj(<< <<kStatus, JStr(tSuccess)>> >>)

\* {"embeddings":[[1,2]]}
BodyEmbeddings == JObj(<< <<kEmbeddings, JArr(<< JArr(<<JNum(1), JNum(2)>>) >>)>> >>)

\* {"embeddings":5}
BodyEmbeddingsNumber == JObj(<< <<kEmbeddings, JNum(5)>> >>)

\* The JSON values a non-streaming response body can hold.
UnaryValues ==
    Fragments \cup NonObjects \cup
    { BodyNoModels, BodyModels, BodyModelsBad, BodyModelsSizeText, BodyGenerated,
      BodyNumber, BodyStatus, BodyEmbeddings, BodyEmbeddingsNumber }

\* Every JSON value of the model, and its text.
JsonUniverse == UnaryValues

JsonText == [v \in JsonUniverse |-> Dumps(v)]

ExpectingValue == <<"E","x","p","e","c","t","i","n","g"," ","v","a","l","u","e",":"," ","l","i","n","e"," ","1"," ","c","o","l","u","m","n"," ","1"," ","(","c","h","a","r"," ","0",")">>

\* json.loads(text): the value whose JSON text this is; a text that is the JSON
\* of no value (the noise texts of the model start with a character no JSON value
\* starts with) raises JSONDecodeError.
JsonLoads(text) ==
    IF \E v \in JsonUniverse : JsonText[v] = text
    THEN Ok(CHOOSE v \in JsonUniverse : JsonText[v] = text)
    ELSE Raise("JSONDecodeError", ExpectingValue)

\* The lines a streaming response body can hold: empty, whitespace only, noise
\* that is no JSON, JSON that is no object, and the fragments (one of them padded
\* with whitespace that ends no line: a no-break space, a space, a unit
\* separator).
StreamLines ==
    { <<>>, <<" ", "\t">>, tPing }
    \cup { JsonText[v] : v \in NonObjects }
    \cup { JsonText[f] : f \in Fragments \ {FragNulls} }
    \cup { <<"U+00A0", " ">> \o JsonText[FragNulls] \o <<" ", "U+001F">> }

\* The bytes a non-streaming response body can hold: nothing, noise, JSON.
UnaryBodies == { <<>>, tHtml } \cup { JsonText[v] : v \in UnaryValues }

\* The lines and bodies of the backend that serves several callers at once: two
\* fragments that feed both buffers and a line that is JSON but no object; an
\* empty body and a status object.
ConcLines ==
    { JsonText[FragThinkingBoth], JsonText[FragNestedEmpty], JsonText[JArr(<<JNum(1)>>)] }

ConcBodies == { <<>>, JsonText[BodyStatus] }

\* The lines and bodies a backend of the given kind can answer with.
BackendLines(kind) == IF kind = "conc" THEN ConcLines ELSE StreamLines

BackendBodies(kind) == IF kind = "conc" THEN ConcBodies ELSE UnaryBodies

\* str(e) of the errors the transport raises
ErrTexts == { <<>>, <<"n","o","p","e">> }

\* The errors a read of the response body raises: connection drop, read
\* timeout, the peer closing before the body is complete, a body whose content
\* encoding (gzip, deflate) cannot be decoded.
ReadErrors ==
    { Raise("ReadError", <<"n","o","p","e">>), Raise("ReadTimeout", <<>>),
      Raise("RemoteProtocolError", <<"n","o","p","e">>),
      Raise("DecodingError", <<"n","o","p","e">>) }

\* The failures a backend of the given kind can answer with: while the request
\* is made and its answer awaited (every error the client's transport raises,
\* from the pool, the proxy, the connection, the write and the read, and the
\* errors of reading the body: client.request reads the whole answer,
\* client.stream its head), by a status that is no success, and while the body
\* of a stream is read. The client follows no redirects (AsyncClient is made
\* with the timeout alone), so TooManyRedirects is no failure of a request.
BackendFailures(kind) ==
    IF kind = "conc"
    THEN [request |-> {Raise("ConnectError", <<"n","o","p","e">>), Raise("ReadTimeout", <<>>)},
          status |-> {Raise("HTTPStatusError", <<"n","o","p","e">>)},
          read |-> {Raise("ReadTimeout", <<>>)}]
    ELSE [request |-> {Raise(cls, <<"n","o","p","e">>) :
                          cls \in {"TimeoutException", "ConnectTimeout", "ReadTimeout",
                                   "WriteTimeout", "PoolTimeout", "NetworkError",
                                   "ConnectError", "ReadError", "WriteError", "ProxyError",
                                   "UnsupportedProtocol", "ProtocolError",
                                   "LocalProtocolError", "RemoteProtocolError",
                                   "DecodingError"}}
                      \cup {Raise(cls, <<>>) : cls \in {"ConnectError", "ConnectTimeout"}}
                      \cup ReadErrors
                      \cup {Raise("RemoteProtocolError",
                                  <<"S","e","r","v","e","r"," ","d","i","s","c","o","n","n","e","c","t","e","d"," ",
                                    "w","i","t","h","o","u","t"," ","s","e","n","d","i","n","g"," ","a"," ",
                                    "r","e","s","p","o","n","s","e",".">>)},
          status |-> {Raise("HTTPStatusError", msg) : msg \in ErrTexts},
          read |-> ReadErrors]

(***************************************************************************)
(* _request_stream: the fold over the lines of a streaming response        *)
(***************************************************************************)
\* msg = chunk.get("message") or {}
MessageOf(chunk) == PyOr(Get(chunk, kMessage), EmptyDict)

\* AppendThinking with the second test an `if` instead of an `elif`.
AppendThinkingBoth(thinking_parts, chunk) ==
    LET msg == MessageOf(chunk)
        nested == IF IsDict(msg) /\ Truthy(Get(msg, kThinking))
                  THEN Append(thinking_parts, Item(msg, kThinking))
                  ELSE thinking_parts
    IN IF Truthy(Get(chunk, kThinking))
       THEN Append(nested, Item(chunk, kThinking))
       ELSE nested

\* The thinking buffer after one chunk: message.thinking, else top-level thinking.
AppendThinking(thinking_parts, chunk) ==
    LET msg == MessageOf(chunk) IN
    IF IsDict(msg) /\ Truthy(Get(msg, kThinking))
    THEN Append(thinking_parts, Item(msg, kThinking))
    ELSE IF Truthy(Get(chunk, kThinking))
         THEN Append(thinking_parts, Item(chunk, kThinking))
         ELSE thinking_parts

\* AppendContent with the two locations tested in the other order.
AppendContentTopFirst(content_parts, chunk, content_key) ==
    LET msg == MessageOf(chunk) IN
    IF HasKey(chunk, content_key)
    THEN Append(content_parts, PyOr(Item(chunk, content_key), JStr(<<>>)))
    ELSE IF IsDict(msg) /\ HasKey(msg, content_key)
         THEN Append(content_parts, PyOr(Item(msg, content_key), JStr(<<>>)))
         ELSE content_parts

\* The content buffer after one chunk: message[content_key], else chunk[content_key].
AppendContent(content_parts, chunk, content_key) ==
    LET msg == MessageOf(chunk) IN
    IF IsDict(msg) /\ HasKey(msg, content_key)
    THEN Append(content_parts, PyOr(Item(msg, content_key), JStr(<<>>)))
    ELSE IF HasKey(chunk, content_key)
         THEN Append(content_parts, PyOr(Item(chunk, content_key), JStr(<<>>)))
         ELSE content_parts

\* The buffers of one accumulation.
NewAcc == [content_parts |-> <<>>, thinking_parts |-> <<>>]

\* OnDecodeError without the except clause: the decode error leaves the loop.
OnDecodeErrorRaise(acc) == Raise("JSONDecodeError", ExpectingValue)

\* What a line that is no JSON does to the buffers: `continue`.
OnDecodeError(acc) == Ok(acc)

\* HandleLine that skips a line holding JSON that is no object, as it skips a
\* line that is no JSON.
HandleLineSkipNonObject(acc, raw, content_key) ==
    LET line == Strip(raw) IN
    IF line = <<>> THEN Ok(acc)
    ELSE LET chunk == JsonLoads(line) IN
         IF ~chunk.ok THEN OnDecodeError(acc)
         ELSE IF ~IsDict(chunk.val) THEN Ok(acc)
         ELSE Ok([content_parts |-> AppendContent(acc.content_parts, chunk.val, content_key),
                  thinking_parts |-> AppendThinking(acc.thinking_parts, chunk.val)])

\* One pass of the loop body for one line of the stream: the buffers after it, or
\* the exception that leaves the loop.
HandleLine(acc, raw, content_key) ==
    LET line == Strip(raw) IN
    IF line = <<>> THEN Ok(acc)
    ELSE LET chunk == JsonLoads(line) IN
         IF ~chunk.ok THEN OnDecodeError(acc)
         ELSE IF ~IsDict(chunk.val) THEN NoGetError(chunk.val)
         ELSE Ok([content_parts |-> AppendContent(acc.content_parts, chunk.val, content_key),
                  thinking_parts |-> AppendThinking(acc.thinking_parts, chunk.val)])

\* RenderStream without the strip() of the joined thinking.
RenderStreamUntrimmed(acc) ==
    LET content == StrJoin(<<>>, acc.content_parts)
        thinking == StrJoin(<<" ">>, acc.thinking_parts)
    IN IF ~content.ok THEN content
       ELSE IF acc.thinking_parts # <<>>
            THEN IF ~thinking.ok THEN thinking
                 ELSE Ok(JStr(ThinkingLabel \o thinking.val \o BlankLineSep \o content.val))
            ELSE Ok(JStr(content.val))

\* The text returned once the stream has closed.
RenderStream(acc) ==
    LET content == StrJoin(<<>>, acc.content_parts)
        thinking == StrJoin(<<" ">>, acc.thinking_parts)
    IN IF ~content.ok THEN content
       ELSE IF acc.thinking_parts # <<>>
            THEN IF ~thinking.ok THEN thinking
                 ELSE Ok(JStr(ThinkingLabel \o Strip(thinking.val) \o BlankLineSep
                              \o content.val))
            ELSE Ok(JStr(content.val))

RECURSIVE FoldLines(_, _, _)
\* The loop over a whole sequence of lines, from the buffers acc.
FoldLines(acc, raws, content_key) ==
    IF raws = <<>> THEN Ok(acc)
    ELSE LET r == HandleLine(acc, Head(raws), content_key) IN
         IF ~r.ok THEN r ELSE FoldLines(r.val, Tail(raws), content_key)

\* _request_stream on a response whose status is a success and whose body is
\* the lines raws, read to EOF.
_request_stream(raws, content_key) ==
    LET r == FoldLines(NewAcc, raws, content_key) IN
    IF ~r.ok THEN r ELSE RenderStream(r.val)

(***************************************************************************)
(* _request and the bodies of the tool operations                          *)
(***************************************************************************)
\* _request on a response whose status is a success: {} for an empty body,
\* resp.json() otherwise.
_request(body) == IF body = <<>> THEN Ok(EmptyDict) ELSE JsonLoads(body)

MiB == 1048576

\* round(n / d) to the nearest integer, ties to even, as ":.0f" rounds
RoundHalfEven(n, d) ==
    LET q == n \div d
        r == n % d
    IN IF 2 * r > d THEN q + 1
       ELSE IF 2 * r = d THEN q + (q % 2)
       ELSE q

\* f"{size / (1024**2):.0f} MB" if size else "?"
SizeMB(size) ==
    IF ~Truthy(size) THEN Ok(<<"?">>)
    ELSE IF size.t \notin {"num", "bool"}
    THEN Raise("TypeError",
               <<"u","n","s","u","p","p","o","r","t","e","d"," ","o","p","e","r","a","n","d"," ","t","y","p","e","(","s",")"," ","f","o","r"," ","/",":"," ","'">>
               \o PyTypeName(size) \o <<"'"," ","a","n","d"," ","'","i","n","t","'">>)
    ELSE LET n == IF size.t = "bool" THEN 1 ELSE size.v IN
         Ok((IF n < 0 THEN <<"-">> \o NatDigits(RoundHalfEven(0 - n, MiB))
                      ELSE NatDigits(RoundHalfEven(n, MiB)))
            \o <<" ", "M", "B">>)

\* for m in models: what the loop iterates over
Iterate(v) ==
    CASE v.t = "arr" -> Ok(v.v)
      [] v.t = "str" -> Ok([i \in 1..Len(v.v) |-> JStr(<<v.v[i]>>)])
      [] v.t = "obj" -> Ok([i \in 1..Len(v.v) |-> JStr(v.v[i][1])])
      [] OTHER -> Raise("TypeError",
                        <<"'">> \o PyTypeName(v)
                        \o <<"'"," ","o","b","j","e","c","t"," ","i","s"," ","n","o","t"," ","i","t","e","r","a","b","l","e">>)

\* The first index of a sequence of outcomes that is an exception, 0 if none is.
FirstRaise(rs) ==
    IF \E i \in 1..Len(rs) : ~rs[i].ok
    THEN CHOOSE i \in 1..Len(rs) : ~rs[i].ok /\ \A j \in 1..(i - 1) : rs[j].ok
    ELSE 0

\* "\n".join of the lines made of the items, or the first exception making them
JoinLines(rs) ==
    IF FirstRaise(rs) # 0 THEN rs[FirstRaise(rs)]
    ELSE Ok(JStr(JoinText(<<"\n">>, [i \in 1..Len(rs) |-> rs[i].val])))

\* list_models: one "- name (size MB)" line
ModelLine(m) ==
    IF ~IsDict(m) THEN NoGetError(m)
    ELSE LET name == GetOr(m, kName, JStr(<<"?">>))
             size_mb == SizeMB(Get(m, kSize))
         IN IF ~size_mb.ok THEN size_mb
            ELSE Ok(<<"-", " ">> \o PyStr(name) \o <<" ", "(">> \o size_mb.val \o <<")">>)

\* list_models, from the value _request returned
list_models(data) ==
    IF ~IsDict(data) THEN NoGetError(data)
    ELSE LET models == PyOr(Get(data, kModels), JArr(<<>>)) IN
         IF ~Truthy(models) THEN Ok(JStr(NoModelsText))
         ELSE LET items == Iterate(models) IN
              IF ~items.ok THEN items
              ELSE JoinLines([i \in 1..Len(items.val) |-> ModelLine(items.val[i])])

\* list_running_models: one "- name" line
RunningLine(m) ==
    IF ~IsDict(m) THEN NoGetError(m)
    ELSE Ok(<<"-", " ">> \o PyStr(GetOr(m, kName, JStr(<<"?">>))))

\* list_running_models, from the value _request returned
list_running_models(data) ==
    IF ~IsDict(data) THEN NoGetError(data)
    ELSE LET models == PyOr(Get(data, kModels), JArr(<<>>)) IN
         IF ~Truthy(models) THEN Ok(JStr(NoRunningText))
         ELSE LET items == Iterate(models) IN
              IF ~items.ok THEN items
              ELSE JoinLines([i \in 1..Len(items.val) |-> RunningLine(items.val[i])])

\* show_model, from the value _request returned
show_model(data) == Ok(JStr(DumpsAt(data, 2, 0)))

\* chat with stream=False, from the value _request returned
chat(data) ==
    IF ~IsDict(data) THEN NoGetError(data)
    ELSE LET msg == PyOr(Get(data, kMessage), EmptyDict) IN
         IF ~IsDict(msg) THEN NoGetError(msg)
         ELSE LET content == PyOr(Get(msg, kContent), JStr(<<>>)) IN
              IF Truthy(Get(msg, kThinking))
              THEN Ok(JStr(ThinkingLabel \o PyStr(Get(msg, kThinking)) \o BlankLineSep
                           \o PyStr(content)))
              ELSE Ok(content)

\* generate with stream=False, from the value _request returned
generate(data) ==
    IF ~IsDict(data) THEN NoGetError(data)
    ELSE LET response == PyOr(Get(data, kResponse), JStr(<<>>)) IN
         IF Truthy(Get(data, kThinking))
         THEN Ok(JStr(ThinkingLabel \o PyStr(Get(data, kThinking)) \o BlankLineSep
                      \o PyStr(response)))
         ELSE Ok(response)

\* embed, from the value _request returned
embed(data) ==
    IF ~IsDict(data) THEN NoGetError(data)
    ELSE LET embeddings == PyOr(Get(data, kEmbeddings), JArr(<<>>)) IN
         IF embeddings.t \in {"num", "bool"}
         THEN Raise("TypeError",
                    <<"o","b","j","e","c","t"," ","o","f"," ","t","y","p","e"," ","'">>
                    \o PyTypeName(embeddings)
                    \o <<"'"," ","h","a","s"," ","n","o"," ","l","e","n","(",")">>)
         ELSE Ok(JStr(Dumps(JObj(<< <<kEmbeddings, embeddings>>,
                                    <<kCount, JNum(Len(embeddings.v))>> >>))))

\* pull_model, from the value _request returned
pull_model(data) ==
    IF ~IsDict(data) THEN NoGetError(data)
    ELSE Ok(JStr(PullStatusText \o PyStr(GetOr(data, kStatus, JStr(UnknownText)))
                 \o PullProgressText))

\* delete_model, whatever _request returned
delete_model(name) == Ok(JStr(DeletedText \o PyStr(name)))

(***************************************************************************)
(* The tool operations as callers see them                                 *)
(***************************************************************************)
\* The tools the module registers with @mcp.tool(), in source order.
RegisteredTools ==
    { "list_models", "list_running_models", "show_model", "chat", "generate",
      "embed", "pull_model", "delete_model" }

\* The arguments a tool is called with; a field a tool does not take is None.
ToolArgs(tool) ==
    [ tool : {tool},
      stream : IF tool \in {"chat", "generate"} THEN BOOLEAN ELSE {FALSE},
      name : IF tool \in {"list_models", "list_running_models"} THEN {JNull}
             ELSE {JStr(<<"m">>)},
      system : IF tool = "generate" THEN {JNull, JStr(<<"s">>)} ELSE {JNull},
      insecure : IF tool = "pull_model" THEN BOOLEAN ELSE {FALSE},
      text : IF tool = "embed" THEN {JStr(tHi), JArr(<<JStr(<<"a">>), JStr(<<"b">>)>>)}
             ELSE {JNull} ]

NoCall ==
    [tool |-> "none", stream |-> FALSE, name |-> JNull, system |-> JNull,
     insecure |-> FALSE, text |-> JNull]

\* messages=[{"role":"user","content":"Hi"}]
ChatMessages == JArr(<< JObj(<< <<kRole, JStr(tUser)>>, <<kContent, JStr(tHi)>> >>) >>)

\* The payload a tool builds for its request (None where it sends none).
Payload(cl) ==
    CASE cl.tool = "show_model" -> JObj(<< <<kName, cl.name>> >>)
      [] cl.tool = "chat" ->
           DictSet(JObj(<< <<kModel, cl.name>>, <<kMessages, ChatMessages>> >>),
                   kStream, JBool(cl.stream))
      [] cl.tool = "generate" ->
           DictSet(IF Truthy(cl.system)
                   THEN JObj(<< <<kModel, cl.name>>, <<kPrompt, JStr(tHi)>>,
                                <<kSystem, cl.system>> >>)
                   ELSE JObj(<< <<kModel, cl.name>>, <<kPrompt, JStr(tHi)>> >>),
                   kStream, JBool(cl.stream))
      [] cl.tool = "embed" ->
           JObj(<< <<kModel, cl.name>>,
                   <<kInput, IF IsStr(cl.text) THEN JArr(<<cl.text>>) ELSE cl.text>> >>)
      [] cl.tool = "pull_model" ->
           IF cl.insecure
           THEN JObj(<< <<kName, cl.name>>, <<kInsecure, JBool(TRUE)>> >>)
           ELSE JObj(<< <<kName, cl.name>> >>)
      [] cl.tool = "delete_model" -> JObj(<< <<kName, cl.name>> >>)
      [] OTHER -> JNull

\* The backend-relative path of a tool's request.
PathOf(tool) ==
    CASE tool = "list_models" -> pTags
      [] tool = "list_running_models" -> pPs
      [] tool = "show_model" -> pShow
      [] tool = "chat" -> pChat
      [] tool = "generate" -> pGenerate
      [] tool = "embed" -> pEmbed
      [] tool = "pull_model" -> pPull
      [] OTHER -> pDelete

\* The HTTP method of a tool's request.
MethodOf(tool) ==
    CASE tool \in {"list_models", "list_running_models"} -> "GET"
      [] tool = "delete_model" -> "DELETE"
      [] OTHER -> "POST"

\* Whether the tool reads the response through _request_stream (client.stream)
\* rather than _request (client.request).
UsesStream(cl) == cl.tool \in {"chat", "generate"} /\ cl.stream

\* The one HTTP request a tool call issues.
RequestOf(cl) ==
    [method |-> MethodOf(cl.tool), url |-> _api_url(PathOf(cl.tool)),
     json |-> Payload(cl), streamed |-> UsesStream(cl)]

NoRequest == [method |-> "none", url |-> <<>>, json |-> JNull, streamed |-> FALSE]

\* content_key of a streaming call
ContentKey(cl) == IF cl.tool = "chat" THEN kContent ELSE kResponse

\* The body of a tool after _request has returned data.
ToolBody(cl, data) ==
    CASE cl.tool = "list_models" -> list_models(data)
      [] cl.tool = "list_running_models" -> list_running_models(data)
      [] cl.tool = "show_model" -> show_model(data)
      [] cl.tool = "chat" -> chat(data)
      [] cl.tool = "generate" -> generate(data)
      [] cl.tool = "embed" -> embed(data)
      [] cl.tool = "pull_model" -> pull_model(data)
      [] OTHER -> delete_model(cl.name)

\* except httpx.HTTPError as e: the text the tool returns
OnHTTPError(tool, exc) ==
    IF tool = "list_models"
    THEN FailedPrefix \o exc.msg \o IsRunningHint \o OLLAMA_BASE \o <<"?">>
    ELSE FailedPrefix \o exc.msg

\* except Exception as e: the text the tool returns
OnException(tool, exc) == ErrorPrefix \o exc.msg

\* Handle with the two except clauses swapped in effect.
HandleSwapped(tool, exc) ==
    IF IsHTTPError(exc) THEN OnException(tool, exc) ELSE OnHTTPError(tool, exc)

\* The except clauses of a tool, in order.
Handle(tool, exc) ==
    IF IsHTTPError(exc) THEN OnHTTPError(tool, exc) ELSE OnException(tool, exc)

\* What a tool call hands back to its caller, given what its try block produced.
ToolOutcome(tool, r) ==
    IF r.ok THEN [kind |-> "returned", val |-> r.val]
    ELSE [kind |-> "returned", val |-> JStr(Handle(tool, r.exc))]

NoOutcome == [kind |-> "none", val |-> JNull]
NoExc == [cls |-> "none", msg |-> <<>>]

\* The exception the try block ended with, if any.
Caught(r) == IF r.ok THEN NoExc ELSE r.exc

(***************************************************************************)
(* State                                                                   *)
(***************************************************************************)
\* The tool calls the model follows.
Calls == {"c1", "c2"}

\* The most lines one streaming response delivers.
MaxLines == 3

\* The most lines one streaming response delivers when calls run concurrently.
MaxConcLines == 2

\* The most lines a response of a backend of the given kind delivers.
LineBound(kind) == IF kind = "conc" THEN MaxConcLines ELSE MaxLines

VARIABLES
    registry,   \* the tool names registered with the FastMCP instance
    active,     \* the calls a caller makes
    backend,    \* which answers the backend can give: "any" of the model's
    pc,         \* where each call is: idle, awaiting, reading, done
    call,       \* the tool and arguments of each call
    req,        \* the HTTP request each call issued
    client,     \* per call: AsyncClient contexts opened and closed, requests sent
    body,       \* per call: the content of the response _request read (None: none)
    lines,      \* per call: the lines aiter_lines has yielded so far
    acc,        \* per call: content_parts and thinking_parts
    raised,     \* per call: the exception the loop body raised, on its way out
    caught,     \* per call: the exception its except clause caught
    outcome     \* per call: what the tool handed back

vars ==
    <<registry, active, backend, pc, call, req, client, body, lines, acc, raised, caught,
      outcome>>

InitCalls ==
    /\ registry = RegisteredTools
    /\ pc = [c \in Calls |-> "idle"]
    /\ call = [c \in Calls |-> NoCall]
    /\ req = [c \in Calls |-> NoRequest]
    /\ client = [c \in Calls |-> [opened |-> 0, requests |-> 0, closed |-> 0]]
    /\ body = [c \in Calls |-> JNull]
    /\ lines = [c \in Calls |-> <<>>]
    /\ acc = [c \in Calls |-> NewAcc]
    /\ raised = [c \in Calls |-> NoExc]
    /\ caught = [c \in Calls |-> NoExc]
    /\ outcome = [c \in Calls |-> NoOutcome]

\* One caller, one call at a time.
Init ==
    /\ InitCalls
    /\ active = {"c1"}
    /\ backend = "any"

\* Finish without leaving the client context: the connection is not released.
FinishLeak(c, r) ==
    /\ caught' = [caught EXCEPT ![c] = Caught(r)]
    /\ outcome' = [outcome EXCEPT ![c] = ToolOutcome(call[c].tool, r)]
    /\ pc' = [pc EXCEPT ![c] = "done"]
    /\ UNCHANGED client

\* The tool's try block ended with r: the client context is left (closed), and
\* the tool returns.
Finish(c, r) ==
    /\ client' = [client EXCEPT ![c].closed = @ + 1]
    /\ caught' = [caught EXCEPT ![c] = Caught(r)]
    /\ outcome' = [outcome EXCEPT ![c] = ToolOutcome(call[c].tool, r)]
    /\ pc' = [pc EXCEPT ![c] = "done"]

\* A caller invokes a registered tool: the tool builds its payload, enters
\* `async with httpx.AsyncClient(...)` and sends its request.
Invoke(c) ==
    /\ c \in active
    /\ pc[c] = "idle"
    /\ \E tool \in registry : \E cl \in ToolArgs(tool) :
         /\ call' = [call EXCEPT ![c] = cl]
         /\ req' = [req EXCEPT ![c] = RequestOf(cl)]
    /\ client' = [client EXCEPT ![c] = [opened |-> 1, requests |-> 1, closed |-> 0]]
    /\ pc' = [pc EXCEPT ![c] = "awaiting"]
    /\ UNCHANGED <<registry, active, backend, raised, body, lines, acc, caught, outcome>>


\* The loop body raised on the last line read: the exception is on its way out
\* of the `async with` blocks and has not reached the tool's except clauses.
LoopRaised(c) == raised[c] # NoExc

\* client.request / client.stream raises a transport error: no connection, or
\* the connection fails before the answer is there.
ConnectFail(c) ==
    /\ pc[c] = "awaiting"
    /\ body[c] = JNull
    /\ \E r \in BackendFailures(backend).request : Finish(c, r)
    /\ UNCHANGED <<registry, active, backend, raised, call, req, body, lines, acc>>

\* The response has a status that is no success: resp.raise_for_status() raises.
StatusFail(c) ==
    /\ pc[c] = "awaiting"
    /\ body[c] = JNull
    /\ \E r \in BackendFailures(backend).status : Finish(c, r)
    /\ UNCHANGED <<registry, active, backend, raised, call, req, body, lines, acc>>

\* A successful response to client.request: _request has the response and its
\* content, and the client context is still open.
UnaryResponse(c) ==
    /\ pc[c] = "awaiting"
    /\ ~req[c].streamed
    /\ body[c] = JNull
    /\ \E content \in BackendBodies(backend) :
         body' = [body EXCEPT ![c] = JStr(content)]
    /\ UNCHANGED <<registry, active, backend, raised, pc, call, req, client, lines, acc,
                   caught, outcome>>

\* _request leaves `async with httpx.AsyncClient` (the close is awaited) with
\* the JSON of the content, or with the error resp.json() raised; the tool
\* formats it and returns.
UnaryReturn(c) ==
    /\ pc[c] = "awaiting"
    /\ ~req[c].streamed
    /\ body[c] # JNull
    /\ LET data == _request(body[c].v) IN
       Finish(c, IF data.ok THEN ToolBody(call[c], data.val) ELSE data)
    /\ UNCHANGED <<registry, active, backend, raised, call, req, body, lines, acc>>

\* A successful status on client.stream: the loop over aiter_lines starts.
StreamOpen(c) ==
    /\ pc[c] = "awaiting"
    /\ req[c].streamed
    /\ pc' = [pc EXCEPT ![c] = "reading"]
    /\ UNCHANGED <<registry, active, backend, raised, call, req, client, body, lines, acc, caught, outcome>>

\* StreamLine that takes a fragment with done=true as the end of the stream: it
\* folds the fragment, stops reading and returns.
StreamLineStopAtDone(c) ==
    /\ pc[c] = "reading"
    /\ ~LoopRaised(c)
    /\ Len(lines[c]) < LineBound(backend)
    /\ \E raw \in BackendLines(backend) :
         LET r == HandleLine(acc[c], raw, ContentKey(call[c]))
             chunk == JsonLoads(Strip(raw))
             done == chunk.ok /\ IsDict(chunk.val) /\ Get(chunk.val, kDone) = JBool(TRUE)
         IN
         /\ lines' = [lines EXCEPT ![c] = Append(@, raw)]
         /\ acc' = IF r.ok THEN [acc EXCEPT ![c] = r.val] ELSE acc
         /\ raised' = IF r.ok THEN raised ELSE [raised EXCEPT ![c] = r.exc]
         /\ IF r.ok /\ done
            THEN Finish(c, RenderStream(r.val))
            ELSE UNCHANGED <<pc, client, caught, outcome>>
    /\ UNCHANGED <<registry, active, backend, call, req, body>>

\* StreamLine with one pair of buffers shared by all calls (module-level lists
\* instead of locals): a line read by one call lands in every call's buffers.
StreamLineShared(c) ==
    /\ pc[c] = "reading"
    /\ ~LoopRaised(c)
    /\ Len(lines[c]) < LineBound(backend)
    /\ \E raw \in BackendLines(backend) :
         LET r == HandleLine(acc[c], raw, ContentKey(call[c])) IN
         /\ lines' = [lines EXCEPT ![c] = Append(@, raw)]
         /\ acc' = IF r.ok THEN [d \in Calls |-> r.val] ELSE acc
         /\ raised' = IF r.ok THEN raised ELSE [raised EXCEPT ![c] = r.exc]
    /\ UNCHANGED <<registry, active, backend, pc, call, req, client, body, caught, outcome>>

\* aiter_lines yields one more line and the loop body runs on it: the parts it
\* gives are appended; when it raises, the buffers stay as they are and the
\* exception leaves the loop.
StreamLine(c) ==
    /\ pc[c] = "reading"
    /\ ~LoopRaised(c)
    /\ Len(lines[c]) < LineBound(backend)
    /\ \E raw \in BackendLines(backend) :
         LET r == HandleLine(acc[c], raw, ContentKey(call[c])) IN
         /\ lines' = [lines EXCEPT ![c] = Append(@, raw)]
         /\ raised' = IF r.ok THEN raised ELSE [raised EXCEPT ![c] = r.exc]
         /\ acc' = IF r.ok THEN [acc EXCEPT ![c] = r.val] ELSE acc
    /\ UNCHANGED <<registry, active, backend, pc, call, req, client, body, caught, outcome>>

\* The exception the loop body raised leaves `async with client.stream` and
\* `async with httpx.AsyncClient` (the close is awaited) and reaches the tool.
StreamAbort(c) ==
    /\ pc[c] = "reading"
    /\ LoopRaised(c)
    /\ Finish(c, [ok |-> FALSE, exc |-> raised[c]])
    /\ UNCHANGED <<registry, active, backend, raised, call, req, body, lines, acc>>

\* StreamDrop that swallows the read error and returns what was accumulated.
StreamDropPartial(c) ==
    /\ pc[c] = "reading"
    /\ ~LoopRaised(c)
    /\ client' = [client EXCEPT ![c].closed = @ + 1]
    /\ caught' = [caught EXCEPT ![c] = (CHOOSE r \in ReadErrors : TRUE).exc]
    /\ outcome' = [outcome EXCEPT ![c] = ToolOutcome(call[c].tool, RenderStream(acc[c]))]
    /\ pc' = [pc EXCEPT ![c] = "done"]
    /\ UNCHANGED <<registry, active, backend, raised, call, req, body, lines, acc>>

\* aiter_lines raises: the connection drops or the read times out.
StreamDrop(c) ==
    /\ pc[c] = "reading"
    /\ ~LoopRaised(c)
    /\ \E r \in BackendFailures(backend).read : Finish(c, r)
    /\ UNCHANGED <<registry, active, backend, raised, call, req, body, lines, acc>>

\* aiter_lines ends: the stream is closed, the parts are joined and returned.
StreamEOF(c) ==
    /\ pc[c] = "reading"
    /\ ~LoopRaised(c)
    /\ Finish(c, RenderStream(acc[c]))
    /\ UNCHANGED <<registry, active, backend, raised, call, req, body, lines, acc>>

Next ==
    \E c \in Calls :
        \/ Invoke(c)
        \/ ConnectFail(c)
        \/ StatusFail(c)
        \/ UnaryResponse(c)
        \/ UnaryReturn(c)
        \/ StreamOpen(c)
        \/ StreamLine(c)
        \/ StreamAbort(c)
        \/ StreamDrop(c)
        \/ StreamEOF(c)

Spec == Init /\ [][Next]_vars

\* Two callers at once: FastMCP runs each incoming request's tool coroutine on
\* the one event loop, and the coroutines interleave at every await (the
\* request, each line read, the close).
InitConc ==
    /\ InitCalls
    /\ active = Calls
    /\ backend = "conc"

SpecConc == InitConc /\ [][Next]_vars

(***************************************************************************)
(* Properties                                                              *)
(***************************************************************************)
\* The streaming call c has returned the text of _request_stream (the stream
\* was read to EOF and no exception left the accumulator).
StreamReturned(c) == pc[c] = "done" /\ req[c].streamed /\ caught[c] = NoExc

\* What json.loads makes of each stripped line of the model, computed once.
DecodedLines == [raw \in StreamLines |-> JsonLoads(Strip(raw))]

\* What json.loads makes of the stripped line.
ParsedLine(raw) ==
    IF raw \in StreamLines THEN DecodedLines[raw] ELSE JsonLoads(Strip(raw))

IsBlankLine(raw) == \A i \in 1..Len(raw) : raw[i] \in Whitespace

\* A line that holds a JSON object: a fragment.
IsFragmentLine(raw) ==
    ~IsBlankLine(raw) /\ ParsedLine(raw).ok /\ IsDict(ParsedLine(raw).val)

\* A line that is not blank and cannot be decoded as JSON.
IsMalformedLine(raw) == ~IsBlankLine(raw) /\ ~ParsedLine(raw).ok

NotBlankLine(raw) == ~IsBlankLine(raw)

NotMalformedLine(raw) == ~IsMalformedLine(raw)

\* The fragments of a stream, in arrival order.
FragmentsOf(raws) ==
    LET fl == SelectSeq(raws, IsFragmentLine) IN
    [i \in 1..Len(fl) |-> ParsedLine(fl[i]).val]

\* The text of a value; a missing or null value is the empty text.
TextOrEmpty(v) == IF IsStr(v) THEN v.v ELSE <<>>

\* The message sub-object of a fragment holds the key: a conversational fragment.
IsConversational(frag, key) ==
    HasKey(frag, kMessage) /\ IsDict(Item(frag, kMessage))
    /\ HasKey(Item(frag, kMessage), key)

\* The primary-content text of a fragment: message.<key> for a conversational
\* fragment, top-level <key> otherwise.
PrimaryContent(frag, key) ==
    IF IsConversational(frag, key) THEN TextOrEmpty(Item(Item(frag, kMessage), key))
    ELSE IF HasKey(frag, key) THEN TextOrEmpty(Item(frag, key))
    ELSE <<>>

RECURSIVE ConcatContent(_, _)
ConcatContent(frags, key) ==
    IF frags = <<>> THEN <<>>
    ELSE PrimaryContent(Head(frags), key) \o ConcatContent(Tail(frags), key)

EndsWith(s, suffix) ==
    Len(suffix) <= Len(s) /\ SubSeq(s, Len(s) - Len(suffix) + 1, Len(s)) = suffix

\* The texts of a list of str values.
TextsOf(parts) == [i \in 1..Len(parts) |-> parts[i].v]

\* C1: when every non-blank line of the stream is a JSON object and
\* _request_stream returns, the content it joined, which ends its result, is the
\* concatenation in arrival order of each fragment's primary-content text
\* (message.<content_key> where the message sub-object holds it, top-level
\* <content_key> otherwise, empty for a missing or null value), and the result is
\* the one _request_stream gives for the same stream without its blank lines.
C1_ContentIsOrderedConcatenation ==
    \A c \in Calls :
        (/\ StreamReturned(c)
         /\ \A i \in 1..Len(lines[c]) :
                IsBlankLine(lines[c][i]) \/ IsFragmentLine(lines[c][i]))
        => LET expected == ConcatContent(FragmentsOf(lines[c]), ContentKey(call[c])) IN
           /\ JoinText(<<>>, TextsOf(acc[c].content_parts)) = expected
           /\ IsStr(outcome[c].val)
           /\ EndsWith(outcome[c].val.v, expected)
           /\ _request_stream(SelectSeq(lines[c], NotBlankLine), ContentKey(call[c]))
                = Ok(outcome[c].val)

\* C1 witness: chat streamed {"message":{..."content":"Hi"}}, a whitespace line,
\* {"message":{"content":" there","thinking":"T "},...} and returned
\* "[Thinking] T\n\nHi there".
C1_Witness ==
    \E c \in Calls :
        /\ StreamReturned(c)
        /\ call[c].tool = "chat"
        /\ lines[c] = <<JsonText[FragMessage], <<" ", "\t">>, JsonText[FragThinkingBoth]>>
        /\ outcome[c].val = JStr(ThinkingLabel \o <<"T">> \o BlankLineSep \o tHi \o tThere)

\* The reasoning a fragment contributes: message.thinking when it is not empty,
\* else top-level thinking when it is not empty, else nothing.
ReasoningEntry(frag) ==
    LET m == Get(frag, kMessage)
        nested == IF IsDict(m) THEN Get(m, kThinking) ELSE JNull
        top == Get(frag, kThinking)
    IN IF Truthy(nested) THEN <<nested>>
       ELSE IF Truthy(top) THEN <<top>>
       ELSE <<>>

RECURSIVE ReasoningEntries(_)
ReasoningEntries(frags) ==
    IF frags = <<>> THEN <<>>
    ELSE ReasoningEntry(Head(frags)) \o ReasoningEntries(Tail(frags))

\* C2: once the stream has closed and _request_stream returns, its result is
\* "[Thinking] " + the reasoning texts joined by single spaces and trimmed +
\* "\n\n" + the accumulated content when some fragment contributed reasoning
\* that is not empty, and the accumulated content alone when none did.
C2_ThinkingBlockIffReasoning ==
    \A c \in Calls :
        StreamReturned(c)
        => LET reasoning == ReasoningEntries(FragmentsOf(lines[c]))
               content == JoinText(<<>>, TextsOf(acc[c].content_parts))
           IN outcome[c].val =
                JStr(IF reasoning # <<>>
                     THEN ThinkingLabel \o Strip(JoinText(<<" ">>, TextsOf(reasoning)))
                          \o BlankLineSep \o content
                     ELSE content)

\* C2 witness: generate streamed {"thinking":"Hmm","response":"","done":false}
\* then {"response":"Yes.","done":true} and returned "[Thinking] Hmm\n\nYes.".
C2_Witness ==
    \E c \in Calls :
        /\ StreamReturned(c)
        /\ call[c].tool = "generate"
        /\ lines[c] = <<JsonText[FragThinkingTop], JsonText[FragResponse]>>
        /\ outcome[c].val = JStr(ThinkingLabel \o tHmm \o BlankLineSep \o tYes)

\* C3: the reasoning buffer holds, in order, at most one entry per fragment
\* processed: the nested message.thinking when that is not empty (also when the
\* top-level thinking is not empty too), the top-level thinking only when there
\* is no nested one that is not empty.
C3_OneReasoningEntryPerFragment ==
    \A c \in Calls :
        req[c].streamed
        => LET frags == FragmentsOf(lines[c]) IN
           /\ acc[c].thinking_parts = ReasoningEntries(frags)
           /\ Len(acc[c].thinking_parts) <= Len(frags)

\* C3 witness: a fragment with message.thinking "T " and top-level thinking "X"
\* was processed and the buffer holds "T " alone.
C3_Witness ==
    \E c \in Calls :
        /\ req[c].streamed
        /\ lines[c] = <<JsonText[FragThinkingBoth]>>
        /\ acc[c].thinking_parts = <<JStr(<<"T", " ">>)>>

\* C4: lines that cannot be decoded as JSON change nothing: the buffers are those
\* of the same stream without its malformed lines, no decode error reaches the
\* tool, and a returned result is the one _request_stream gives for the stream
\* without them.
C4_MalformedLinesSkipped ==
    \A c \in Calls :
        req[c].streamed
        => LET clean == SelectSeq(lines[c], NotMalformedLine)
               fold == FoldLines(NewAcc, clean, ContentKey(call[c]))
           IN /\ caught[c].cls # "JSONDecodeError"
              /\ fold.ok => acc[c] = fold.val
              /\ ~fold.ok => IF pc[c] = "done" THEN caught[c] = fold.exc
                              ELSE caught[c] = NoExc /\ LoopRaised(c)
              /\ StreamReturned(c)
                    => _request_stream(clean, ContentKey(call[c])) = Ok(outcome[c].val)

\* C4 witness: chat streamed "Hi", the noise line "ping" and a fragment with
\* content "c" and thinking " U", and returned "[Thinking] U\n\nHic".
C4_Witness ==
    \E c \in Calls :
        /\ StreamReturned(c)
        /\ call[c].tool = "chat"
        /\ lines[c] = <<JsonText[FragMessage], tPing, JsonText[FragNestedEmpty]>>
        /\ outcome[c].val = JStr(ThinkingLabel \o <<"U">> \o BlankLineSep \o tHi \o <<"c">>)

\* The exception classes of a transport failure (httpx.TransportError and its
\* subclasses: timeouts, network errors, protocol errors, proxy, unsupported
\* protocol) or of a status that is no success.
TransportOrStatus ==
    { "TransportError", "TimeoutException", "ConnectTimeout", "ReadTimeout",
      "WriteTimeout", "PoolTimeout", "NetworkError", "ConnectError", "ReadError",
      "WriteError", "CloseError", "ProtocolError", "LocalProtocolError",
      "RemoteProtocolError", "ProxyError", "UnsupportedProtocol", "HTTPStatusError" }

\* The exception classes of every failure the HTTP client reports: those of the
\* transport and the status, and those that are neither (a response whose
\* content encoding cannot be decoded, too many redirects, the base classes).
ClientFailures ==
    TransportOrStatus \cup {"HTTPError", "RequestError", "DecodingError", "TooManyRedirects"}

\* C5: a streaming chat or generate call that fails by its status, by the
\* connection or in the middle of the stream returns the failure text made of
\* "Ollama request failed: " and the error's own text, whatever was accumulated:
\* never the text the accumulated parts would have given, never the accumulated
\* content; a failure before the first line leaves both buffers empty.
C5_StreamFailureDropsPartial ==
    \A c \in Calls :
        (req[c].streamed /\ pc[c] = "done" /\ caught[c].cls \in ClientFailures)
        => LET partial == RenderStream(acc[c])
               content == StrJoin(<<>>, acc[c].content_parts)
           IN /\ outcome[c].val = JStr(FailedPrefix \o caught[c].msg)
              /\ partial.ok => outcome[c].val # partial.val
              /\ (content.ok /\ content.val # <<>>) => outcome[c].val.v # content.val
              /\ caught[c].cls \in {"ConnectError", "ConnectTimeout", "HTTPStatusError"}
                    => lines[c] = <<>> /\ acc[c] = NewAcc
              /\ lines[c] = <<>> => acc[c] = NewAcc

\* C5 witness: generate had accumulated "Yes." when the read failed, and
\* returned "Ollama request failed: nope".
C5_Witness ==
    \E c \in Calls :
        /\ call[c].tool = "generate"
        /\ pc[c] = "done"
        /\ lines[c] = <<JsonText[FragResponse]>>
        /\ acc[c].content_parts = <<JStr(tYes)>>
        /\ caught[c] = [cls |-> "ReadError", msg |-> <<"n","o","p","e">>]
        /\ outcome[c].val = JStr(FailedPrefix \o <<"n","o","p","e">>)

\* C6: every tool call that has ended has returned a value, and that value is a
\* text string, whatever the backend did.
C6_EveryToolReturnsText ==
    \A c \in Calls :
        pc[c] = "done" => outcome[c].kind = "returned" /\ IsStr(outcome[c].val)

\* C7 as stated: a tool call that ended on a transport failure or on a status
\* that is no success returned a text starting with "Ollama request failed: "
\* and not with "Error: "; one that ended on any other exception returned a
\* text starting with "Error: " and not with "Ollama request failed: ".
C7_FailureClassPrefixes ==
    \A c \in Calls :
        (pc[c] = "done" /\ caught[c] # NoExc)
        => /\ IsStr(outcome[c].val)
           /\ IF caught[c].cls \in TransportOrStatus
              THEN /\ StartsWith(outcome[c].val.v, FailedPrefix)
                   /\ ~StartsWith(outcome[c].val.v, ErrorPrefix)
              ELSE /\ StartsWith(outcome[c].val.v, ErrorPrefix)
                   /\ ~StartsWith(outcome[c].val.v, FailedPrefix)

\* C7 amended: a tool call that ended on a failure the HTTP client reports (a
\* transport failure, a status that is no success, and also a response whose
\* content encoding cannot be decoded) returned a text starting with
\* "Ollama request failed: " and not with "Error: "; one that ended on any
\* other exception (a body that is no JSON, a JSON value of an unexpected
\* shape) returned a text starting with "Error: " and not with
\* "Ollama request failed: ".
C7_ClientFailurePrefixes ==
    \A c \in Calls :
        (pc[c] = "done" /\ caught[c] # NoExc)
        => /\ IsStr(outcome[c].val)
           /\ caught[c].cls \in TransportOrStatus
                 => StartsWith(outcome[c].val.v, FailedPrefix)
           /\ caught[c].cls \in {"AttributeError", "TypeError", "JSONDecodeError"}
                 => StartsWith(outcome[c].val.v, ErrorPrefix)
           /\ IF caught[c].cls \in ClientFailures
              THEN /\ StartsWith(outcome[c].val.v, FailedPrefix)
                   /\ ~StartsWith(outcome[c].val.v, ErrorPrefix)
              ELSE /\ StartsWith(outcome[c].val.v, ErrorPrefix)
                   /\ ~StartsWith(outcome[c].val.v, FailedPrefix)

\* C7 witness: list_models got an answer whose content encoding could not be
\* decoded (DecodingError, no transport failure and no status) and returned
\* "Ollama request failed: nope. Is Ollama running at http://localhost:11434?".
C7_Witness ==
    \E c \in Calls :
        /\ call[c].tool = "list_models"
        /\ pc[c] = "done"
        /\ caught[c] = [cls |-> "DecodingError", msg |-> <<"n","o","p","e">>]
        /\ outcome[c].val =
             JStr(FailedPrefix \o <<"n","o","p","e">> \o IsRunningHint \o OLLAMA_BASE \o <<"?">>)

PullFinishedText == <<"P","u","l","l"," ","f","i","n","i","s","h","e","d">>

\* C8: pull_model reads /pull as a streaming response, passes insecure=true in
\* its payload when asked to, and on success returns a text that contains
\* "Pull finished".
C8_PullStreamsStatus ==
    \A c \in Calls :
        (call[c].tool = "pull_model" /\ pc[c] # "idle")
        => /\ call[c].insecure => Get(req[c].json, kInsecure) = JBool(TRUE)
           /\ (pc[c] = "done" /\ caught[c] = NoExc)
                => /\ req[c].streamed
                   /\ IsStr(outcome[c].val)
                   /\ Contains(outcome[c].val.v, PullFinishedText)

\* The nine operations the specification names.
NineOperations ==
    { "list_models", "list_running_models", "show_model", "chat", "generate",
      "embed", "copy_model", "pull_model", "delete_model" }

\* C9: the registered tool operations are the nine named ones, copy_model among
\* them.
C9_NineOperations == registry = NineOperations

\* C10: a tool call opens one client and sends one request; the client is open
\* while the call awaits or reads the response and is closed exactly once when
\* the tool has returned, on every path; no second request is ever sent.
C10_OneAttemptAlwaysReleased ==
    \A c \in Calls :
        /\ pc[c] = "idle" => client[c] = [opened |-> 0, requests |-> 0, closed |-> 0]
        /\ pc[c] \in {"awaiting", "reading"}
              => client[c] = [opened |-> 1, requests |-> 1, closed |-> 0]
        /\ pc[c] = "done" => client[c] = [opened |-> 1, requests |-> 1, closed |-> 1]

\* C10 witness: a streaming call whose read timed out after one line has
\* returned with its one client closed.
C10_Witness ==
    \E c \in Calls :
        /\ pc[c] = "done"
        /\ Len(lines[c]) = 1
        /\ caught[c].cls = "ReadTimeout"
        /\ client[c] = [opened |-> 1, requests |-> 1, closed |-> 1]

(***************************************************************************)
(* Concurrent calls                                                        *)
(***************************************************************************)
\* What a streaming call hands back when it runs alone: on its own lines, with
\* the transport failure it met (if any).
AloneOutcome(cl, raws, exc) ==
    IF IsHTTPError(exc)
    THEN ToolOutcome(cl.tool, Raise(exc.cls, exc.msg))
    ELSE ToolOutcome(cl.tool, _request_stream(raws, ContentKey(cl)))

\* The buffers a call running alone holds after reading the given lines.
AloneBuffers(cl, raws) == FoldLines(NewAcc, raws, ContentKey(cl))

\* C11: with several streaming calls in flight and their line reads interleaved
\* in any order, the buffers of a call that is reading hold exactly what its own
\* lines give (those before the line its loop body raised on, if it did), a call
\* that has finished returned what it returns running alone on its own stream
\* (and with its own failure), and a call can always take its next step,
\* whatever the other calls did (failed, timed out, still reading): read on or
\* finish while it reads, leave with the exception once its loop body raised.
C11_ConcurrentCallsIndependent ==
    \A c \in Calls :
        /\ (pc[c] = "reading" /\ ~LoopRaised(c)) =>
              /\ LET alone == AloneBuffers(call[c], lines[c])
                 IN alone.ok /\ acc[c] = alone.val
              /\ ENABLED StreamEOF(c)
              /\ ENABLED StreamDrop(c)
              /\ (Len(lines[c]) < LineBound(backend)) => ENABLED StreamLine(c)
        /\ (pc[c] = "reading" /\ LoopRaised(c)) =>
              /\ LET alone == AloneBuffers(call[c], SubSeq(lines[c], 1, Len(lines[c]) - 1))
                 IN alone.ok /\ acc[c] = alone.val
              /\ ENABLED StreamAbort(c)
        /\ (pc[c] = "done" /\ req[c].streamed) =>
              outcome[c] = AloneOutcome(call[c], lines[c], caught[c])
        /\ (pc[c] = "awaiting" /\ req[c].streamed) => ENABLED StreamOpen(c)

\* C11 witness: both calls streamed at once; c1 read two fragments and returned
\* their text, c2 read a fragment and then timed out.
C11_Witness ==
    /\ call["c1"].tool = "chat" /\ call["c2"].tool = "generate"
    /\ pc["c1"] = "done" /\ pc["c2"] = "done"
    /\ lines["c1"] = <<JsonText[FragThinkingBoth], JsonText[FragNestedEmpty]>>
    /\ lines["c2"] = <<JsonText[FragNestedEmpty]>>
    /\ caught["c2"].cls = "ReadTimeout"
    /\ acc["c2"].content_parts = <<JStr(<<"r">>)>>
    /\ outcome["c1"].val =
         JStr(ThinkingLabel \o <<"T", " ", " ", " ", "U">> \o BlankLineSep \o tThere \o <<"c">>)
    /\ outcome["c2"].val = JStr(FailedPrefix)

(***************************************************************************)
(* The done flag                                                           *)
(***************************************************************************)
\* A line that holds a fragment whose done flag is true.
IsDoneLine(raw) == IsFragmentLine(raw) /\ Get(ParsedLine(raw).val, kDone) = JBool(TRUE)

\* One step of a streaming call, as far as the end of accumulation goes.
DoneFlagIgnored(c) ==
    LET key == ContentKey(call[c]) IN
    /\ (pc[c] = "reading" /\ lines'[c] # lines[c]) =>
          LET raw == lines'[c][Len(lines'[c])]
              r == HandleLine(acc[c], raw, key)
          IN /\ lines'[c] = Append(lines[c], raw)
             /\ r.ok => (pc'[c] = "reading" /\ acc'[c] = r.val /\ outcome'[c] = NoOutcome)
    /\ (pc[c] = "reading" /\ pc'[c] = "done" /\ caught'[c] = NoExc) =>
          /\ lines'[c] = lines[c]
          /\ _request_stream(lines[c], key) = Ok(outcome'[c].val)
          /\ outcome'[c] = ToolOutcome(call[c].tool, RenderStream(acc[c]))

\* C12: the done flag of a fragment never ends the accumulation. A step that
\* reads a line which does not raise leaves the call reading, with the line
\* folded into the buffers, whether or not that line or an earlier one carried
\* done=true; and a call ends with a success only on a step that reads no line
\* (EOF), returning what the fold over all the lines read gives, whether or not
\* any of them carried done=true.
C12_DoneFlagNeverStops == [][\A c \in Calls : DoneFlagIgnored(c)]_vars

\* C12 witness: generate streamed {"response":"Yes.","done":true} and then,
\* after it, {...,"thinking":" U",...,"response":"r"}; the later fragment is in
\* the result "[Thinking] U\n\nYes.r".
C12_Witness ==
    \E c \in Calls :
        /\ StreamReturned(c)
        /\ call[c].tool = "generate"
        /\ lines[c] = <<JsonText[FragResponse], JsonText[FragNestedEmpty]>>
        /\ IsDoneLine(lines[c][1])
        /\ ~IsDoneLine(lines[c][2])
        /\ outcome[c].val = JStr(ThinkingLabel \o <<"U">> \o BlankLineSep \o tYes \o <<"r">>)

(***************************************************************************)
(* Lines that are JSON but no object                                       *)
(***************************************************************************)
\* A line that holds valid JSON that is no object.
IsNonObjectLine(raw) ==
    ~IsBlankLine(raw) /\ ParsedLine(raw).ok /\ ~IsDict(ParsedLine(raw).val)

\* C13: a stream line that is valid JSON but no object (array, number, string,
\* true, false, null) is not skipped: it is the last line the call reads (once
\* it is read the call can neither read on nor end as a success, it can only
\* leave with the error), the buffers stay as the earlier fragments left them
\* and are dropped, and the call ends with an AttributeError that is no
\* httpx.HTTPError: chat or generate returns "Error: " + the message of that
\* error, a text that does not start with "Ollama request failed: " and is not
\* the success text of the lines read before it.
C13_NonObjectLineAborts ==
    \A c \in Calls : \A i \in 1..Len(lines[c]) :
        IsNonObjectLine(lines[c][i]) =>
            LET before == SubSeq(lines[c], 1, i - 1)
                key == ContentKey(call[c])
                v == ParsedLine(lines[c][i]).val
            IN
            /\ i = Len(lines[c])
            /\ call[c].tool \in {"chat", "generate"}
            /\ Ok(acc[c]) = FoldLines(NewAcc, before, key)
            /\ pc[c] \in {"reading", "done"}
            /\ pc[c] = "reading" =>
                  /\ outcome[c] = NoOutcome
                  /\ ~ENABLED StreamLine(c)
                  /\ ~ENABLED StreamEOF(c)
                  /\ ~ENABLED StreamDrop(c)
                  /\ ENABLED StreamAbort(c)
            /\ pc[c] = "done" =>
                  /\ caught[c].cls = "AttributeError"
                  /\ ~IsHTTPError(caught[c])
                  /\ outcome[c] =
                       [kind |-> "returned",
                        val |-> JStr(ErrorPrefix \o <<"'">> \o PyTypeName(v) \o NoAttrTail)]
                  /\ StartsWith(outcome[c].val.v, ErrorPrefix)
                  /\ ~StartsWith(outcome[c].val.v, FailedPrefix)
                  /\ Ok(outcome[c].val) # _request_stream(before, key)
                  /\ _request_stream(lines[c], key) = Raise("AttributeError", caught[c].msg)

\* C13 witness: chat streamed {"message":{..."content":"Hi"},...} and then the
\* line [1]; "Hi" was accumulated and the tool returned
\* "Error: 'list' object has no attribute 'get'".
C13_Witness ==
    \E c \in Calls :
        /\ call[c].tool = "chat"
        /\ pc[c] = "done"
        /\ lines[c] = <<JsonText[FragMessage], JsonText[JArr(<<JNum(1)>>)]>>
        /\ acc[c].content_parts = <<JStr(tHi)>>
        /\ outcome[c].val =
             JStr(ErrorPrefix \o <<"'", "l", "i", "s", "t">> \o NoAttrTail)

(***************************************************************************)
(* Streaming and non-streaming on one backend object                       *)
(***************************************************************************)
\* A field that is absent, null or a string.
AbsentNullOrText(obj, key) ==
    ~HasKey(obj, key) \/ Item(obj, key) = JNull \/ IsStr(Item(obj, key))

\* A response object whose content and reasoning fields, in the nested and in
\* the top-level location, are absent, null or strings.
IsResponseObject(o) ==
    /\ IsDict(o)
    /\ \A key \in {kThinking, kContent, kResponse} : AbsentNullOrText(o, key)
    /\ \/ ~HasKey(o, kMessage)
       \/ Item(o, kMessage) = JNull
       \/ /\ IsDict(Item(o, kMessage))
          /\ \A key \in {kThinking, kContent, kResponse} :
                 AbsentNullOrText(Item(o, kMessage), key)

\* What the same tool returns with stream=False when the backend's single JSON
\* response is o.
NonStreamOutcome(cl, o) == ToolOutcome(cl.tool, ToolBody([cl EXCEPT !.stream = FALSE], o))

\* C14: for chat and for generate, when a streaming call has read the one line
\* o, a response object, reached EOF and returned, the string it returns equals
\* the string the same tool returns with stream=False when the backend's single
\* JSON response is o.
C14_StreamAgreesWithNonStream ==
    \A c \in Calls :
        (/\ pc[c] = "done"
         /\ req[c].streamed
         /\ call[c].tool \in {"chat", "generate"}
         /\ Len(lines[c]) = 1
         /\ IsFragmentLine(lines[c][1])
         /\ IsResponseObject(ParsedLine(lines[c][1]).val)
         /\ ~IsHTTPError(caught[c]))
        => outcome[c] = NonStreamOutcome(call[c], ParsedLine(lines[c][1]).val)

=============================================================================
